---- MODULE Spec2Model ----
(***************************************************************************)
(* A model of rs_fr_lookup_v10.py (and of its twin rs_fr_lookup_local.py,  *)
(* whose logic is identical): the string validators, the per-identifier    *)
(* lookup fetch_rs_info, and the batch loop main with its resume set and   *)
(* its append-only output file.                                            *)
(*                                                                         *)
(* Text is a sequence of characters, each character a one-character        *)
(* string, so that strip, split, lower and substring tests are computed.   *)
(***************************************************************************)
EXTENDS Integers, Sequences, FiniteSets, TLC

VARIABLES
    \* ---- validators called on their own
    cand,          \* the candidate / token / brand text passed in
    hint,          \* rs_pn_hint
    vpc,           \* which validator was called last ("init" before any call)
    ret,           \* what it returned
    \* ---- the lookup of one identifier (one pass of main's loop body)
    rs,            \* rs_pn: the identifier looked up
    lpc,           \* DIRECT_ATTEMPT, SEARCH_ATTEMPT, FOLLOW_LINK or DONE
    attempt,       \* safe_get: the attempt number of the request under way
    backoff,       \* safe_get's delay: the next backoff sleep (hundredths of a second)
    gets,          \* the URL of every GET issued so far, in order
    slept,         \* every time.sleep so far, in order (hundredths of a second)
    plink,         \* product_link: the link the search produced
    resp,          \* what the last finished safe_get yielded
    row,           \* the output row built for the identifier
    saved,         \* the files written to failed_pages
    \* ---- the batch: main, run after run on the same input.csv and output.csv
    cells,         \* input.csv: the RS_PN column as written in the file
    outfile,       \* output.csv: whether it exists, and its lines
    bpc,           \* where main is (or "stopped" / "finished" between runs)
    rs_list,       \* the stripped identifiers read from input.csv
    already_done,  \* the resume set, loaded once when the run starts
    idx,           \* the input row the loop is at
    pending,       \* the row built for that identifier, until it is written
    header,        \* header = not os.path.exists(OUTPUT_FILE)
    runs,          \* how many runs were started
    startLines,    \* the lines output.csv held when the current run started
    looked,        \* the identifiers fetch_rs_info was called for in this run
    interrupted    \* whether some run so far was interrupted

vvars == <<cand, hint, vpc, ret>>
lvars == <<rs, lpc, attempt, backoff, gets, slept, plink, resp, row, saved>>
bvars == <<cells, outfile, bpc, rs_list, already_done, idx, pending, header, runs,
           startLines, looked, interrupted>>
vars == <<vvars, lvars, bvars>>

----------------------------------------------------------------------------
(* Bounds of the model *)

MaxLen == 3        \* candidates: every text over Alphabet up to this length
MaxWords == 7      \* candidates: up to this many words
MaxDigits == 21    \* tokens: runs of digits up to this length
MaxRows == 2       \* input.csv: up to this many rows
MaxRuns == 2       \* main is run up to this many times

----------------------------------------------------------------------------
(* Characters *)

UpperCase == <<"A","B","C","D","E","F","G","H","I","J","K","L","M",
               "N","O","P","Q","R","S","T","U","V","W","X","Y","Z">>
LowerCase == <<"a","b","c","d","e","f","g","h","i","j","k","l","m",
               "n","o","p","q","r","s","t","u","v","w","x","y","z">>

Range(f) == {f[i] : i \in DOMAIN f}

\* "e'" stands for an accented letter (e acute), "3'" for a decimal digit
\* outside ASCII (ARABIC-INDIC DIGIT THREE): one character each.
AccentedLetters == {"e'"}
NonAsciiDigits == {"3'"}
AsciiDigits == {"0","1","2","3","4","5","6","7","8","9"}

\* \s of the regular expressions, and what str.strip() / str.split() remove
Whitespace == {" ", "\t"}

\* [A-Za-z0-9]
IsAsciiAlnum(c) == c \in Range(UpperCase) \cup Range(LowerCase) \cup AsciiDigits
\* [A-Za-zA`-O"O/-o"o/-y"]
IsLetter(c) == c \in Range(UpperCase) \cup Range(LowerCase) \cup AccentedLetters
\* \d (Unicode decimal digits: the patterns are str patterns)
IsDigit(c) == c \in AsciiDigits \cup NonAsciiDigits
\* [-_\/\.]
IsPunct(c) == c \in {"-", "_", "/", "."}

\* str.lower() on one character
LowerChar(c) ==
    IF \E i \in 1..26 : UpperCase[i] = c
    THEN LowerCase[CHOOSE i \in 1..26 : UpperCase[i] = c]
    ELSE c

----------------------------------------------------------------------------
(* Text *)

Min(S) == CHOOSE x \in S : \A y \in S : x <= y
Max(S) == CHOOSE x \in S : \A y \in S : x >= y

\* str.lower()
Lower(s) == [i \in 1..Len(s) |-> LowerChar(s[i])]

\* str.strip()
Strip(s) ==
    LET keep == {i \in 1..Len(s) : s[i] \notin Whitespace}
    IN  IF keep = {} THEN <<>> ELSE SubSeq(s, Min(keep), Max(keep))

\* sub in s
Contains(sub, s) ==
    \E i \in 1..(Len(s) - Len(sub) + 1) : SubSeq(s, i, i + Len(sub) - 1) = sub

\* str.replace(c, "")
Remove(s, c) == SelectSeq(s, LAMBDA x : x # c)

\* The maximal runs of characters outside seps, in order: str.split() for
\* seps = Whitespace.
Tokens(s, seps) ==
    LET starts == {i \in 1..Len(s) : s[i] \notin seps /\ (i = 1 \/ s[i-1] \in seps)}
        nth(k) == CHOOSE i \in starts : Cardinality({j \in starts : j < i}) = k - 1
        stop(i) == Min({j \in i..Len(s) : j = Len(s) \/ s[j+1] \in seps})
    IN  [k \in 1..Cardinality(starts) |-> SubSeq(s, nth(k), stop(nth(k)))]

\* len(s.split())
NumWords(s) == Len(Tokens(s, Whitespace))

\* " ".join(words)
RECURSIVE JoinSp(_)
JoinSp(words) ==
    IF words = <<>> THEN <<>>
    ELSE IF Len(words) = 1 THEN words[1]
    ELSE words[1] \o <<" ">> \o JoinSp(Tail(words))

\* norm: re.sub(r"\s+", " ", t or "").strip()
norm(t) == JoinSp(Tokens(t, Whitespace))

\* re.split(r"[\s,;/]+", s): the runs between separators, with an empty
\* string where s starts or ends with a separator.
SplitSeps == Whitespace \cup {",", ";", "/"}
re_split(s) ==
    IF s = <<>> THEN << <<>> >>
    ELSE (IF s[1] \in SplitSeps THEN << <<>> >> ELSE <<>>)
         \o Tokens(s, SplitSeps)
         \o (IF s[Len(s)] \in SplitSeps THEN << <<>> >> ELSE <<>>)

----------------------------------------------------------------------------
(* The validators *)

_rejection_substrings == {
    <<"c","o","n","t","a","i","n","s"," ","s","v","h","c">>,
    <<"c","a","d","m","i","u","m">>,
    <<"l","e","a","d">>,
    <<"c","a","s"," ","n","o">>,
    <<"a","h">>,
    <<" ","v"," ">>,
    <<" ","v","o","l","t">>,
    <<"v","o","l","t","s">>,
    <<"a","m","p">>,
    <<"c","a","p","a","c","i","t","y">>,
    <<"r","e","c","h","a","r","g","e","a","b","l","e">>,
    <<"w","a","t","t">>,
    <<"b","a","t","t","e","r","y">>,
    <<"d","e","s","c","r","i","p","t","i","o","n">> }

MaxFieldWords == 6
MaxTokenWords == 4
MinNumericLen == 2
MaxNumericLen == 20
MinWordLen == 3

looks_like_brand(text) ==
    IF text = <<>> THEN FALSE
    ELSE LET s == Strip(text)
         IN  (\E i \in 1..Len(s) : IsLetter(s[i])) /\ Len(s) > 1

\* A variant of is_valid_mpn_from_field that looks for the rejection
\* substrings in the text as written, without lowering it first.
is_valid_mpn_from_field_case_sensitive(candidate, rs_pn_hint) ==
    IF candidate = <<>> THEN FALSE
    ELSE LET s == Strip(candidate)
         IN  IF NumWords(s) > MaxFieldWords THEN FALSE
             ELSE IF \E bad \in _rejection_substrings : Contains(bad, s) THEN FALSE
             ELSE IF ~ \E i \in 1..Len(s) : IsAsciiAlnum(s[i]) THEN FALSE
             ELSE IF rs_pn_hint # <<>> /\ Lower(Remove(s, " ")) = Lower(rs_pn_hint)
                  THEN FALSE
             ELSE TRUE

is_valid_mpn_from_field(candidate, rs_pn_hint) ==
    IF candidate = <<>> THEN FALSE
    ELSE LET s == Strip(candidate)
             lower == Lower(s)
         IN  IF NumWords(s) > MaxFieldWords THEN FALSE
             ELSE IF \E bad \in _rejection_substrings : Contains(bad, lower) THEN FALSE
             ELSE IF ~ \E i \in 1..Len(s) : IsAsciiAlnum(s[i]) THEN FALSE
             ELSE IF rs_pn_hint # <<>> /\ Lower(Remove(s, " ")) = Lower(rs_pn_hint)
                  THEN FALSE
             ELSE TRUE

\* A variant of heuristic_mpn_candidate that takes a run of digits whatever
\* the hint is.
heuristic_mpn_candidate_no_hint(tok, rs_pn_hint) ==
    IF tok = <<>> THEN FALSE
    ELSE LET s == Strip(tok)
             has_letter == \E i \in 1..Len(s) : IsLetter(s[i])
             has_digit == \E i \in 1..Len(s) : IsDigit(s[i])
             has_punct == \E i \in 1..Len(s) : IsPunct(s[i])
         IN  IF NumWords(s) > MaxTokenWords THEN FALSE
             ELSE IF ":" \in Range(s) THEN FALSE
             ELSE IF ~ \E i \in 1..Len(s) : IsAsciiAlnum(s[i]) THEN FALSE
             ELSE IF /\ Len(s) >= MinNumericLen
                     /\ Len(s) <= MaxNumericLen
                     /\ \A i \in 1..Len(s) : IsDigit(s[i])
                  THEN TRUE
             ELSE IF (has_letter /\ has_digit) \/ (has_punct /\ (has_letter \/ has_digit))
                  THEN TRUE
             ELSE has_letter /\ Len(s) >= MinWordLen /\ NumWords(s) = 1

heuristic_mpn_candidate(tok, rs_pn_hint) ==
    IF tok = <<>> THEN FALSE
    ELSE LET s == Strip(tok)
             has_letter == \E i \in 1..Len(s) : IsLetter(s[i])
             has_digit == \E i \in 1..Len(s) : IsDigit(s[i])
             has_punct == \E i \in 1..Len(s) : IsPunct(s[i])
         IN  IF NumWords(s) > MaxTokenWords THEN FALSE
             ELSE IF ":" \in Range(s) THEN FALSE
             ELSE IF ~ \E i \in 1..Len(s) : IsAsciiAlnum(s[i]) THEN FALSE
             ELSE IF /\ Len(s) >= MinNumericLen
                     /\ Len(s) <= MaxNumericLen
                     /\ \A i \in 1..Len(s) : IsDigit(s[i])
                  THEN ~ (rs_pn_hint # <<>> /\ s = rs_pn_hint)
             ELSE IF (has_letter /\ has_digit) \/ (has_punct /\ (has_letter \/ has_digit))
                  THEN TRUE
             ELSE has_letter /\ Len(s) >= MinWordLen /\ NumWords(s) = 1

----------------------------------------------------------------------------
(* The validators called on their own, on every text of a bounded pool *)

Alphabet == {" ", "\t", "a", "A", "h", "v", "1", "2", ":", "-"}

Rep(c, n) == [i \in 1..n |-> c]

\* n words "a1" separated by single spaces
WordsOf(n) == JoinSp([i \in 1..n |-> <<"a","1">>])

ShortTexts == UNION {[1..n -> Alphabet] : n \in 0..MaxLen}

\* every rejection substring, as it is and in upper case, bare and embedded
Embedded ==
    UNION { { pre \o w \o post :
                pre \in {<<>>, <<"x">>, <<"1"," ">>},
                post \in {<<>>, <<"2">>, <<" ">>, <<" ","d","c">>} } :
            w \in _rejection_substrings \cup
                  { [i \in 1..Len(b) |->
                       IF \E k \in 1..26 : LowerCase[k] = b[i]
                       THEN UpperCase[CHOOSE k \in 1..26 : LowerCase[k] = b[i]]
                       ELSE b[i]] : b \in _rejection_substrings } }

CandPool ==
    ShortTexts
    \cup {WordsOf(n) : n \in 0..MaxWords}
    \cup {Rep(d, n) : d \in {"1", "3'"}, n \in 0..MaxDigits}
    \cup {Rep("1", n) \o <<"2">> : n \in 0..(MaxDigits - 1)}
    \cup Embedded
    \cup { <<"R","S"," ","P","R","O">>, <<"e'","e'">>, <<"3">>, <<"R","o","H","S">> }

HintPool ==
    { <<>>, <<"1","2">>, <<"1"," ","2">>, <<"a","1">>, <<"A","1">>, <<"a"," ","1">>,
      Rep("1", MaxNumericLen), <<"a","h">> }


----------------------------------------------------------------------------
(* Pages                                                                   *)
(*                                                                         *)
(* The HTML parser is a collaborator: a page is modelled by what its       *)
(* finders yield. A container (a parsed product page, a search card, a     *)
(* sibling element) is a record of the raw texts found in it, <<>> where   *)
(* the element is absent or has no text:                                   *)
(*   brandA  text of a[data-testid=brand-link] (its span, else itself)     *)
(*   brandDd text of dd[data-testid=brand-desktop] (its span, else itself) *)
(*   mpnDd   text of dd[data-testid=mpn-desktop]                           *)
(*   mpnDt   text of the dd that follows the MPN dt label                  *)
(*   dist    text of the distrelec field, as the three lookups find it     *)
(*                                                                         *)
(* A local name the code binds once and reads several times is passed as   *)
(* an argument to a helper that holds the rest of the function.            *)
(***************************************************************************)

BASE == "https://fr.rs-online.com"
WEBP == "/web/p/"
BASE_SEARCH == "https://fr.rs-online.com/web/c/?searchTerm="

NoFields == [brandA |-> <<>>, brandDd |-> <<>>, mpnDd |-> <<>>, mpnDt |-> <<>>,
             dist |-> <<>>]

\* "rs" in brand.lower() and "pro" in brand.lower()
is_rs_pro(brand) ==
    /\ Contains(<<"r","s">>, Lower(brand))
    /\ Contains(<<"p","r","o">>, Lower(brand))

\* str.isdigit()
isdigit(s) == s # <<>> /\ \A i \in 1..Len(s) : IsDigit(s[i])

extract_distrelec_from_container(container) == norm(container.dist)

\* mpn and (is_valid_mpn_from_field(mpn, rs_pn) or heuristic_mpn_candidate(mpn, rs_pn))
mpn_acceptable(mpn, rs_pn) ==
    mpn # <<>> /\ (is_valid_mpn_from_field(mpn, rs_pn) \/ heuristic_mpn_candidate(mpn, rs_pn))

\* brand and looks_like_brand(brand)
brand_acceptable(brand) == brand # <<>> /\ looks_like_brand(brand)

\* for tok in re.split(...): if heuristic_mpn_candidate(tok): mpn = tok; break
\* else: mpn = ""
first_passing(toks, rs_pn) ==
    IF \E k \in 1..Len(toks) : heuristic_mpn_candidate(toks[k], rs_pn)
    THEN toks[Min({k \in 1..Len(toks) : heuristic_mpn_candidate(toks[k], rs_pn)})]
    ELSE <<>>

first_heuristic_token(text, rs_pn) == first_passing(re_split(text), rs_pn)

\* if mpn and not is_valid_mpn_from_field(mpn, rs_pn): the split-token retry
needs_retry(mpn, rs_pn) == mpn # <<>> /\ ~ is_valid_mpn_from_field(mpn, rs_pn)

sanitized(mpn, rs_pn) ==
    IF needs_retry(mpn, rs_pn) THEN first_heuristic_token(mpn, rs_pn) ELSE mpn

\* A variant of with_distrelec that takes the distrelec value as it is,
\* without validating it.
with_distrelec_unchecked(mpn, brand, dist, rs_pn) ==
    IF mpn = <<>> /\ brand # <<>> /\ is_rs_pro(brand) /\ dist # <<>>
    THEN dist ELSE mpn

\* if (not mpn) and brand is RS PRO: dist = extract_distrelec...(container);
\* if dist and is_valid_mpn_from_field(dist, rs_pn): mpn = dist
with_distrelec(mpn, brand, dist, rs_pn) ==
    IF mpn = <<>> /\ brand # <<>> /\ is_rs_pro(brand)
       /\ dist # <<>> /\ is_valid_mpn_from_field(dist, rs_pn)
    THEN dist ELSE mpn

\* parse_product_page_for_fields: the MPN of a field on a product page
product_mpn_field(candidate, rs_pn_hint) ==
    IF is_valid_mpn_from_field(candidate, rs_pn_hint) THEN candidate
    ELSE IF isdigit(candidate) /\ (rs_pn_hint = <<>> \/ candidate # rs_pn_hint)
         THEN candidate
    ELSE <<>>

first_nonempty(a, b) == IF a # <<>> THEN a ELSE b

product_brand(page) == first_nonempty(norm(page.brandA), norm(page.brandDd))

product_mpn(page, rs_pn_hint) ==
    IF page.mpnDd # <<>> THEN product_mpn_field(norm(page.mpnDd), rs_pn_hint)
    ELSE IF page.mpnDt # <<>> THEN product_mpn_field(norm(page.mpnDt), rs_pn_hint)
    ELSE <<>>

product_fields(mpn, brand) == [mpn |-> mpn, brand |-> brand]

\* parse_product_page_for_fields: [mpn, brand]
parse_product_page_for_fields(page, rs_pn_hint) ==
    product_fields(
        with_distrelec(product_mpn(page, rs_pn_hint), product_brand(page),
                       extract_distrelec_from_container(page), rs_pn_hint),
        product_brand(page))

\* The fields of one search-page container (lines 148-177 for a card, with
\* the dt fallback; lines 183-204 for a sibling, without it). tried says
\* whether the split-token retry was entered.
\* A variant of valid_or_empty that keeps the text of the field when it
\* fails validation (so that the split-token retry has something to split).
valid_or_empty_kept(candidate, rs_pn) == candidate

valid_or_empty(candidate, rs_pn) ==
    IF is_valid_mpn_from_field(candidate, rs_pn) THEN candidate ELSE <<>>

container_mpn(container, rs_pn, with_dt) ==
    IF container.mpnDd # <<>> THEN valid_or_empty(norm(container.mpnDd), rs_pn)
    ELSE IF with_dt /\ container.mpnDt # <<>>
         THEN valid_or_empty(norm(container.mpnDt), rs_pn)
    ELSE <<>>

fields_record(brand, mpn, tried, rs_pn) ==
    [brand |-> brand, mpn |-> mpn, tried |-> tried,
     accept |-> brand_acceptable(brand) \/ mpn_acceptable(mpn, rs_pn)]

fields_after_distrelec(brand, mpn, rs_pn) ==
    fields_record(brand, sanitized(mpn, rs_pn), needs_retry(mpn, rs_pn), rs_pn)

fields_of(brand, mpn, dist, rs_pn) ==
    fields_after_distrelec(brand, with_distrelec(mpn, brand, dist, rs_pn), rs_pn)

container_fields(container, rs_pn, with_dt) ==
    fields_of(norm(container.brandA), container_mpn(container, rs_pn, with_dt),
              extract_distrelec_from_container(container), rs_pn)

----------------------------------------------------------------------------
(* Search pages                                                            *)
(*                                                                         *)
(* A search page is its anchors with an href, in document order, and the   *)
(* occurrences of the product-link pattern in its raw text, in order.      *)
(* An anchor: href and text (character texts; BASE and WEBP are one        *)
(* element each), levels (its parent, grandparent, ... as containers with  *)
(* isCard saying whether the element is an article, li or div), sibling    *)
(* (the next sibling element as a container, present or not).              *)
(* A raw occurrence: m (the matched path) and what the regular expressions *)
(* find in the 1600-character window around the first occurrence of m:     *)
(* brand, mpn (the captured groups, <<>> without a match), rsProNear       *)
(* (rs\s*pro matches in the window), distNum (the numeric pattern).        *)
(***************************************************************************)

MaxAncestorLevels == 3   \* range(4) visits the anchor itself and 3 ancestors

\* href if href.startswith("http") else urljoin("https://fr.rs-online.com", href)
full_url(href) ==
    IF href # <<>> /\ href[1] = BASE THEN href
    ELSE IF href # <<>> /\ href[1] = WEBP THEN <<BASE>> \o href
    ELSE <<BASE, "/">> \o href

\* score = 1 + (10 if rs_pn in href or rs_pn in anchor text else 0)
anchor_score(a, rs_pn) ==
    1 + (IF Contains(rs_pn, a.href) \/ Contains(rs_pn, a.text) THEN 10 ELSE 0)

\* A variant of by_score that leaves the candidates in document order.
by_score_unsorted(cands, rs_pn) == cands

\* The anchors whose href holds /web/p/, sorted by score, highest first
\* (list.sort is stable: document order among equals).
by_score(cands, rs_pn) ==
    SelectSeq(cands, LAMBDA a : anchor_score(a, rs_pn) > 1)
    \o SelectSeq(cands, LAMBDA a : anchor_score(a, rs_pn) = 1)

search_candidates(page, rs_pn) ==
    by_score(SelectSeq(page.anchors, LAMBDA a : Contains(<<WEBP>>, a.href)), rs_pn)

NoHit == [found |-> FALSE, link |-> <<>>, brand |-> <<>>, mpn |-> <<>>,
          status |-> <<>>, tried |-> FALSE]

Hit(a, f, status) ==
    [found |-> TRUE, link |-> full_url(a.href), brand |-> f.brand, mpn |-> f.mpn,
     status |-> status, tried |-> f.tried]

\* the ancestors the walk visits
visited_levels(a) ==
    1..(IF Len(a.levels) < MaxAncestorLevels THEN Len(a.levels) ELSE MaxAncestorLevels)

accepting_cards(a, rs_pn) ==
    {i \in visited_levels(a) :
        a.levels[i].isCard /\ container_fields(a.levels[i], rs_pn, TRUE).accept}

candidate_pick(a, cards, sib, rs_pn) ==
    IF cards # {}
    THEN Hit(a, container_fields(a.levels[Min(cards)], rs_pn, TRUE), <<"OK(search-card)">>)
    ELSE IF a.hasSibling /\ sib.accept
    THEN Hit(a, sib, <<"OK(search-sibling)">>)
    ELSE NoHit

\* What one candidate yields: its first accepting card among the ancestors
\* visited, else its accepting sibling, else nothing (found = FALSE).
candidate_fields(a, rs_pn) ==
    candidate_pick(a, accepting_cards(a, rs_pn),
                   container_fields(a.sibling, rs_pn, FALSE), rs_pn)

SearchFields(link, brand, mpn, status, tried) ==
    [link |-> link, brand |-> brand, mpn |-> mpn, status |-> status, tried |-> tried]

from_hit(hit) == SearchFields(hit.link, hit.brand, hit.mpn, hit.status, hit.tried)

search_pick(cands, hits, rs_pn) ==
    IF cands = <<>>
    THEN SearchFields(<<>>, <<>>, <<>>, <<"SEARCH_NO_PRODUCT_LINK">>, FALSE)
    ELSE IF hits # {}
    THEN from_hit(candidate_fields(cands[Min(hits)], rs_pn))
    ELSE SearchFields(full_url(cands[1].href), <<>>, <<>>,
                      <<"OK_FOUND_anchor_no_card_fields">>, FALSE)

found_among(cands, rs_pn) ==
    {k \in 1..Len(cands) : candidate_fields(cands[k], rs_pn).found}

search_in(cands, rs_pn) == search_pick(cands, found_among(cands, rs_pn), rs_pn)

\* parse_search_page_for_fields: [link, brand, mpn, status]; link = <<>> is None
parse_search_page_for_fields(page, rs_pn) ==
    search_in(search_candidates(page, rs_pn), rs_pn)

\* The window of a match is taken around raw.find(m): the first occurrence.
raw_window(page, m) ==
    page.raw[Min({k \in 1..Len(page.raw) : page.raw[k].m = m})]

raw_mpn(field, rs_pn) ==
    IF is_valid_mpn_from_field(field, rs_pn) THEN field
    ELSE first_heuristic_token(field, rs_pn)

raw_distrelec(mpn, brand, w, rs_pn) ==
    IF mpn = <<>>
       /\ ((brand # <<>> /\ is_rs_pro(brand)) \/ w.rsProNear)
       /\ w.distNum # <<>> /\ is_valid_mpn_from_field(Strip(w.distNum), rs_pn)
    THEN Strip(w.distNum) ELSE mpn

window_fields(w, rs_pn) ==
    [brand |-> Strip(w.brand),
     mpn |-> raw_distrelec(IF w.mpn = <<>> THEN <<>> ELSE raw_mpn(Strip(w.mpn), rs_pn),
                           Strip(w.brand), w, rs_pn)]

\* What aggressive_search_scan extracts around one match that holds rs_pn
raw_snippet_fields(page, m, rs_pn) == window_fields(raw_window(page, m), rs_pn)

has_any(f) == f.brand # <<>> \/ f.mpn # <<>>

raw_hits(page, rs_pn) ==
    {k \in 1..Len(page.raw) :
        /\ Contains(rs_pn, page.raw[k].m)
        /\ has_any(raw_snippet_fields(page, page.raw[k].m, rs_pn))}

raw_hit(m, f) ==
    SearchFields(<<BASE>> \o m, f.brand, f.mpn, <<"OK(raw-snippet)">>, FALSE)

raw_pick(page, hits, rs_pn) ==
    IF page.raw = <<>>
    THEN SearchFields(<<>>, <<>>, <<>>, <<"NO_RAW_LINKS">>, FALSE)
    ELSE IF hits # {}
    THEN raw_hit(page.raw[Min(hits)].m,
                 raw_snippet_fields(page, page.raw[Min(hits)].m, rs_pn))
    ELSE SearchFields(<<BASE>> \o page.raw[1].m, <<>>, <<>>, <<"OK(raw-first)">>, FALSE)

\* aggressive_search_scan: [link, brand, mpn, status]
aggressive_search_scan(page, rs_pn) == raw_pick(page, raw_hits(page, rs_pn), rs_pn)

----------------------------------------------------------------------------
(* The lookup of one identifier: fetch_rs_info, stage by stage             *)
(*                                                                         *)
(* out is what safe_get yields once its retries are over: it raises        *)
(* ([kind |-> "raise", e]) or returns a response ([kind |-> "resp", code,  *)
(* page]). A page with bad = TRUE is one the parsing code raises on (an    *)
(* href urljoin rejects, say): an exception nothing in fetch_rs_info       *)
(* catches. A stage yields                                                 *)
(*   next  "done" (fetch_rs_info returns res), "search", "follow", or      *)
(*         "raise" (the exception exc leaves fetch_rs_info)                *)
(*   link  the product link the search found                               *)
(*   saves the diagnostic files written: [pn, suffix, body]                *)
(***************************************************************************)

MAX_RETRIES == 3
RETRY_BACKOFF == 2
INITIAL_DELAY == 80     \* safe_get: delay = 0.8 (hundredths of a second)
SHORT_DELAY == 25       \* 0.25
DELAY == 110            \* 1.1
HTTP_OK == "200"

EmptyRes == [mpn |-> <<>>, brand |-> <<>>, url |-> <<>>, status |-> <<>>]

Res(mpn, brand, url, status) ==
    [mpn |-> mpn, brand |-> brand, url |-> url, status |-> status]

\* f"https://fr.rs-online.com/web/p/{rs_pn}/"
direct_url(rs_pn) == <<BASE, WEBP>> \o rs_pn \o <<"/">>

\* urllib.parse.quote_plus on the characters identifiers are made of here
quote_plus(t) == [i \in 1..Len(t) |-> IF t[i] = " " THEN "+" ELSE t[i]]

search_url(rs_pn) == <<BASE_SEARCH>> \o quote_plus(rs_pn)

\* save_failed_html(rs_pn, html_text, suffix): the file {rs_pn}_{suffix}.html
failed_html(rs_pn, body, suffix) == [pn |-> rs_pn, suffix |-> suffix, body |-> body]

Stage(next, res, link, saves, exc) ==
    [next |-> next, res |-> res, link |-> link, saves |-> saves, exc |-> exc]

\* (mpn and (strict or loose)) or (brand and looks_like_brand(brand))
fields_acceptable(mpn, brand, rs_pn) ==
    mpn_acceptable(mpn, rs_pn) \/ brand_acceptable(brand)

\* lines 312-316
direct_parsed(rs_pn, out, pp) ==
    IF fields_acceptable(pp.mpn, pp.brand, rs_pn)
    THEN Stage("done", Res(pp.mpn, pp.brand, direct_url(rs_pn), <<"OK(direct)">>),
               <<>>, {}, "")
    ELSE Stage("search", EmptyRes, <<>>,
               {failed_html(rs_pn, out.page, <<"direct_fields_missing">>)}, "")

\* A variant of direct_stage that ends the lookup on a direct response
\* other than 200 instead of going on to the search.
direct_stage_no_fallback(rs_pn, out) ==
    IF out.kind = "raise"
    THEN Stage("done", Res(<<>>, <<>>, <<>>, <<"ERROR_DIRECT:", out.e>>), <<>>, {}, "")
    ELSE IF out.code # HTTP_OK
    THEN Stage("done", Res(<<>>, <<>>, <<>>, <<"DIRECT_HTTP_", out.code>>), <<>>, {}, "")
    ELSE IF out.page.bad
    THEN Stage("raise", EmptyRes, <<>>, {}, "ValueError")
    ELSE direct_parsed(rs_pn, out, parse_product_page_for_fields(out.page, rs_pn))

\* lines 306-317
direct_stage(rs_pn, out) ==
    IF out.kind = "raise"
    THEN Stage("done", Res(<<>>, <<>>, <<>>, <<"ERROR_DIRECT:", out.e>>), <<>>, {}, "")
    ELSE IF out.code # HTTP_OK
    THEN Stage("search", EmptyRes, <<>>, {}, "")
    ELSE IF out.page.bad
    THEN Stage("raise", EmptyRes, <<>>, {}, "ValueError")
    ELSE direct_parsed(rs_pn, out, parse_product_page_for_fields(out.page, rs_pn))

\* A variant of search_parsed that hands on the raw scan's own tag when the
\* scan finds no link.
search_parsed_raw_status(rs_pn, out, p1, p2) ==
    IF p1.link # <<>> /\ (p1.brand # <<>> \/ p1.mpn # <<>>)
    THEN Stage("done", Res(p1.mpn, p1.brand, p1.link, p1.status), p1.link, {}, "")
    ELSE IF p2.link # <<>>
    THEN Stage("done", Res(p2.mpn, p2.brand, p2.link, p2.status), p2.link, {}, "")
    ELSE Stage("done", Res(<<>>, <<>>, <<>>, p2.status), <<>>,
               {failed_html(rs_pn, out.page, <<"search_no_link_raw">>)}, "")

\* lines 293-302
search_parsed(rs_pn, out, p1, p2) ==
    IF p1.link # <<>> /\ (p1.brand # <<>> \/ p1.mpn # <<>>)
    THEN Stage("done", Res(p1.mpn, p1.brand, p1.link, p1.status), p1.link, {}, "")
    ELSE IF p2.link # <<>>
    THEN Stage("done", Res(p2.mpn, p2.brand, p2.link, p2.status), p2.link, {}, "")
    ELSE Stage("done", Res(<<>>, <<>>, <<>>, <<"SEARCH_NO_PRODUCT_LINK">>), <<>>,
               {failed_html(rs_pn, out.page, <<"search_no_link_raw">>)}, "")

\* search_rs_for_part_combined, lines 283-302, given what safe_get(url) yields
search_rs_for_part_combined(rs_pn, out) ==
    IF out.kind = "raise"
    THEN Stage("done", Res(<<>>, <<>>, <<>>, <<"SEARCH_ERROR:", out.e>>), <<>>, {}, "")
    ELSE IF out.code # HTTP_OK
    THEN Stage("done", Res(<<>>, <<>>, <<>>, <<"SEARCH_HTTP_", out.code>>), <<>>,
               {failed_html(rs_pn, out.page, <<"search_http_", out.code>>)}, "")
    ELSE IF out.page.bad
    THEN Stage("raise", EmptyRes, <<>>, {}, "ValueError")
    ELSE search_parsed(rs_pn, out, parse_search_page_for_fields(out.page, rs_pn),
                       aggressive_search_scan(out.page, rs_pn))

\* A variant of search_decided without the test of line 321: whatever the
\* search found is returned as a success.
search_decided_untested(rs_pn, s) ==
    IF s.next = "raise" THEN s
    ELSE IF s.res.url = <<>>
    THEN Stage("done", Res(<<>>, <<>>, <<>>, s.res.status), <<>>, s.saves, "")
    ELSE Stage("done",
               Res(sanitized(s.res.mpn, rs_pn), s.res.brand, s.res.url,
                   <<"OK(search:">> \o s.res.status \o <<")">>),
               s.res.url, s.saves, "")

\* lines 319-329: what fetch_rs_info makes of the search's answer s
search_decided(rs_pn, s) ==
    IF s.next = "raise" THEN s
    ELSE IF s.res.url = <<>>
    THEN Stage("done", Res(<<>>, <<>>, <<>>, s.res.status), <<>>, s.saves, "")
    ELSE IF brand_acceptable(s.res.brand) \/ mpn_acceptable(s.res.mpn, rs_pn)
    THEN Stage("done",
               Res(sanitized(s.res.mpn, rs_pn), s.res.brand, s.res.url,
                   <<"OK(search:">> \o s.res.status \o <<")">>),
               s.res.url, s.saves, "")
    ELSE Stage("follow", EmptyRes, s.res.url, s.saves, "")

\* lines 318-329
search_stage(rs_pn, out) == search_decided(rs_pn, search_rs_for_part_combined(rs_pn, out))

\* lines 337-341
follow_parsed(rs_pn, product_link, out, pp) ==
    IF fields_acceptable(pp.mpn, pp.brand, rs_pn)
    THEN Stage("done", Res(pp.mpn, pp.brand, product_link, <<"OK(search->product)">>),
               product_link, {}, "")
    ELSE Stage("done", Res(<<>>, <<>>, product_link, <<"PRODUCT_PAGE_FIELDS_MISSING">>),
               product_link,
               {failed_html(rs_pn, out.page, <<"product_fields_missing_after_search">>)}, "")

\* A variant of follow_stage that does not save the body of a product
\* response other than 200.
follow_stage_unsaved(rs_pn, product_link, out) ==
    IF out.kind = "raise"
    THEN Stage("done", Res(<<>>, <<>>, product_link, <<"ERROR_FETCH_PRODUCT:", out.e>>),
               product_link, {}, "")
    ELSE IF out.code # HTTP_OK
    THEN Stage("done", Res(<<>>, <<>>, product_link, <<"PRODUCT_HTTP_", out.code>>),
               product_link, {}, "")
    ELSE IF out.page.bad
    THEN Stage("raise", EmptyRes, product_link, {}, "ValueError")
    ELSE follow_parsed(rs_pn, product_link, out,
                       parse_product_page_for_fields(out.page, rs_pn))

\* lines 330-341
follow_stage(rs_pn, product_link, out) ==
    IF out.kind = "raise"
    THEN Stage("done", Res(<<>>, <<>>, product_link, <<"ERROR_FETCH_PRODUCT:", out.e>>),
               product_link, {}, "")
    ELSE IF out.code # HTTP_OK
    THEN Stage("done", Res(<<>>, <<>>, product_link, <<"PRODUCT_HTTP_", out.code>>),
               product_link,
               {failed_html(rs_pn, out.page, <<"product_http_", out.code>>)}, "")
    ELSE IF out.page.bad
    THEN Stage("raise", EmptyRes, product_link, {}, "ValueError")
    ELSE follow_parsed(rs_pn, product_link, out,
                       parse_product_page_for_fields(out.page, rs_pn))

\* main, lines 396-402: the row of one identifier, from what fetch_rs_info
\* returned or raised
result_row(rs_pn, st) ==
    IF st.next = "raise"
    THEN [RS_PN |-> rs_pn, Manufacturer_PN |-> <<>>, Brand |-> <<>>,
          Product_URL |-> <<>>, Status |-> <<"EXCEPTION:", st.exc>>]
    ELSE [RS_PN |-> rs_pn, Manufacturer_PN |-> st.res.mpn, Brand |-> st.res.brand,
          Product_URL |-> st.res.url, Status |-> st.res.status]

\* fetch_rs_info as a whole, given what each request would yield:
\* env = [direct, search, product]. The last stage reached, with the saves
\* of all the stages.
with_saves(st, saves) == [st EXCEPT !.saves = saves \cup st.saves]

after_search(rs_pn, env, d, s) ==
    IF s.next # "follow" THEN with_saves(s, d.saves)
    ELSE with_saves(follow_stage(rs_pn, s.link, env.product), d.saves \cup s.saves)

after_direct(rs_pn, env, d) ==
    IF d.next # "search" THEN d
    ELSE after_search(rs_pn, env, d, search_stage(rs_pn, env.search))

fetch_rs_info(rs_pn, env) == after_direct(rs_pn, env, direct_stage(rs_pn, env.direct))

----------------------------------------------------------------------------
(* The pools the responses are drawn from *)

RsPool == { <<"1","2">>, <<"1","-","2">>, <<"A","1">> }

T_RSPRO == <<"R","S"," ","P","R","O">>
T_ACME == <<"A","c","m","e">>
T_X9 == <<"X","-","9">>
T_ROHS == <<"L","e","a","d","-","f","r","e","e",","," ","R","o","H","S">>
T_DIST == <<"3","4","-"," "," ","5","6">>

Page(brandA, brandDd, mpnDd, mpnDt, dist, anchors, raw, bad) ==
    [brandA |-> brandA, brandDd |-> brandDd, mpnDd |-> mpnDd, mpnDt |-> mpnDt,
     dist |-> dist, anchors |-> anchors, raw |-> raw, bad |-> bad]

EmptyPage == Page(<<>>, <<>>, <<>>, <<>>, <<>>, <<>>, <<>>, FALSE)
BadPage == [EmptyPage EXCEPT !.bad = TRUE]

\* Product pages: the in-house brand with every MPN and distrelec field,
\* no brand or a text that is no brand with every MPN field, a brand in the
\* dd with the MPN under the dt label, and a page the parser raises on.
ProductPages ==
    { Page(T_RSPRO, <<>>, mD, <<>>, d, <<>>, <<>>, FALSE) :
        mD \in {<<>>, T_X9, T_ROHS},
        d \in {<<>>, T_DIST, <<"1","2">>, <<"9"," ","a","h">>} }
    \cup { Page(bA, <<>>, mD, <<>>, <<>>, <<>>, <<>>, FALSE) :
             bA \in {<<>>, <<"3">>}, mD \in {<<>>, T_X9, <<"1","2">>} }
    \cup { Page(<<>>, T_ACME, <<>>, mT, <<>>, <<>>, <<>>, FALSE) :
             mT \in {<<>>, <<"7">>, <<"3'">>} }
    \cup {BadPage}

Container(isCard, brandA, mpnDd, mpnDt, dist) ==
    [isCard |-> isCard, brandA |-> brandA, brandDd |-> <<>>, mpnDd |-> mpnDd,
     mpnDt |-> mpnDt, dist |-> dist]

NoContainer == Container(FALSE, <<>>, <<>>, <<>>, <<>>)

Containers ==
    { Container(TRUE, b, m, <<>>, d) :
        b \in {<<>>, T_ACME, T_RSPRO},
        m \in {<<>>, T_X9, T_ROHS},
        d \in {<<>>, T_DIST} }
    \cup { Container(TRUE, <<>>, <<>>, T_X9, <<>>) }

Anchor(href, text, levels, hasSibling, sibling) ==
    [href |-> href, text |-> text, levels |-> levels, hasSibling |-> hasSibling,
     sibling |-> sibling]

ProductHref(pn) == <<WEBP>> \o pn \o <<"/">>

OtherHref == <<WEBP, "9", "/">>

Hrefs == {ProductHref(pn) : pn \in RsPool} \cup {OtherHref}

\* anchors whose parent is a card
CardAnchors ==
    { Anchor(h, <<>>, <<c>>, FALSE, NoContainer) : h \in Hrefs, c \in Containers }

\* anchors outside any card, alone or followed by a sibling element; an
\* anchor whose card is the grandparent, one whose card is too far up, and
\* one whose href is no product link
LooseAnchors ==
    { Anchor(OtherHref, t, <<NoContainer>>, FALSE, NoContainer) :
        t \in {<<>>, <<"1","2">>} }
    \cup { Anchor(h, <<>>, <<>>, TRUE, Container(FALSE, b, m, <<>>, <<>>)) :
             h \in {ProductHref(<<"1","2">>), OtherHref},
             b \in {<<>>, T_ACME}, m \in {<<>>, T_X9, T_ROHS} }
    \cup { Anchor(ProductHref(<<"1","2">>), <<>>, lv, FALSE, NoContainer) :
             lv \in { <<NoContainer, Container(TRUE, T_ACME, T_X9, <<>>, <<>>)>>,
                      <<NoContainer, NoContainer, NoContainer,
                        Container(TRUE, T_ACME, T_X9, <<>>, <<>>)>> } }
    \cup { Anchor(<<"/", "c", "/">>, <<>>, <<Container(TRUE, T_ACME, T_X9, <<>>, <<>>)>>,
                  FALSE, NoContainer) }

RawMatch(m, brand, mpn, rsProNear, distNum) ==
    [m |-> m, brand |-> brand, mpn |-> mpn, rsProNear |-> rsProNear, distNum |-> distNum]

\* The raw text of a page holds the href of each of its anchors: an
\* occurrence of the pattern for each href with /web/p/ and a path after it.
\* Nothing else is found around it unless the page says so.
RawOfAnchors(anchors) ==
    LET prod == SelectSeq(anchors, LAMBDA a : Contains(<<WEBP>>, a.href) /\ a.href # <<WEBP>>)
    IN  [k \in 1..Len(prod) |-> RawMatch(prod[k].href, <<>>, <<>>, FALSE, <<>>)]

SearchPage(anchors, extraRaw) ==
    Page(<<>>, <<>>, <<>>, <<>>, <<>>, anchors, RawOfAnchors(anchors) \o extraRaw, FALSE)

\* occurrences of the pattern outside any anchor (in a script, say)
ExtraRaw ==
    { <<>> }
    \cup { << RawMatch(ProductHref(pn), b, m, near, d) >> :
             pn \in {<<"1","2">>, <<"A","1">>},
             b \in {<<>>, T_ACME},
             m \in {<<>>, T_X9, T_ROHS},
             near \in BOOLEAN,
             d \in {<<>>, <<"3","4","-","5","6">>} }
    \* an occurrence whose MPN field repeats the identifier of its link
    \cup { << RawMatch(ProductHref(<<"A","1">>), <<>>, <<"A","1">>, FALSE, <<>>) >> }

SearchPages ==
    { SearchPage(<<>>, x) : x \in ExtraRaw }
    \cup { SearchPage(<<a>>, <<>>) : a \in CardAnchors \cup LooseAnchors }
    \cup { SearchPage(<<Anchor(OtherHref, <<>>, <<NoContainer>>, FALSE, NoContainer), b>>, <<>>) :
             b \in { Anchor(ProductHref(<<"1","2">>), <<>>, <<c>>, FALSE, NoContainer) :
                       c \in { Container(TRUE, T_ACME, T_X9, <<>>, <<>>),
                               Container(TRUE, <<>>, T_ROHS, <<>>, <<>>),
                               NoContainer } } }
    \cup { SearchPage(<<Anchor(ProductHref(<<"1","2">>), <<>>, <<NoContainer>>, FALSE, NoContainer),
                         Anchor(OtherHref, <<>>, <<Container(TRUE, T_ACME, T_X9, <<>>, <<>>)>>,
                                FALSE, NoContainer)>>, <<>>) }
    \cup { SearchPage(<<Anchor(<<WEBP>>, <<>>, <<NoContainer>>, FALSE, NoContainer)>>, <<>>),
           BadPage }

Codes == {"200", "204", "404", "503"}
TransportErrors == {"ConnectionError"}

\* stage: the stage whose request it answered, once that is known
Raised(e) == [kind |-> "raise", e |-> e, code |-> "", page |-> EmptyPage, stage |-> ""]
Response(code, page) ==
    [kind |-> "resp", e |-> "", code |-> code, page |-> page, stage |-> ""]
NoResp == [kind |-> "none", e |-> "", code |-> "", page |-> EmptyPage, stage |-> ""]

\* what a request can yield: any code with the page that goes with it
Responses(pages) ==
    {Response("200", p) : p \in pages}
    \cup {Response(c, EmptyPage) : c \in Codes \ {"200"}}

NoRow == [RS_PN |-> <<>>, Manufacturer_PN |-> <<>>, Brand |-> <<>>,
          Product_URL |-> <<>>, Status |-> <<>>]

----------------------------------------------------------------------------
(* Specification SpecValid: each validator called once on a text of the    *)
(* pool                                                                    *)

ValidIdle == cand = <<>> /\ hint = <<>> /\ vpc = "idle" /\ ret = FALSE

LookupIdle ==
    /\ rs = <<>> /\ lpc = "idle" /\ attempt = 0 /\ backoff = 0
    /\ gets = <<>> /\ slept = <<>> /\ plink = <<>>
    /\ resp = NoResp /\ row = NoRow /\ saved = {}

BatchIdle ==
    /\ cells = <<>> /\ outfile = [exists |-> FALSE, lines |-> <<>>] /\ bpc = "idle"
    /\ rs_list = <<>> /\ already_done = {} /\ idx = 0 /\ pending = NoRow
    /\ header = FALSE /\ runs = 0 /\ startLines = <<>> /\ looked = <<>>
    /\ interrupted = FALSE

InitValid ==
    /\ cand \in CandPool
    /\ hint \in HintPool
    /\ vpc = "init"
    /\ ret = FALSE
    /\ LookupIdle
    /\ BatchIdle

Call_is_valid_mpn_from_field ==
    /\ vpc = "init"
    /\ vpc' = "is_valid_mpn_from_field"
    /\ ret' = is_valid_mpn_from_field(cand, hint)
    /\ UNCHANGED <<cand, hint, lvars, bvars>>

Call_heuristic_mpn_candidate ==
    /\ vpc = "init"
    /\ vpc' = "heuristic_mpn_candidate"
    /\ ret' = heuristic_mpn_candidate(cand, hint)
    /\ UNCHANGED <<cand, hint, lvars, bvars>>

Call_looks_like_brand ==
    /\ vpc = "init"
    /\ vpc' = "looks_like_brand"
    /\ ret' = looks_like_brand(cand)
    /\ UNCHANGED <<cand, hint, lvars, bvars>>

NextValid ==
    \/ Call_is_valid_mpn_from_field
    \/ Call_heuristic_mpn_candidate
    \/ Call_looks_like_brand

SpecValid == InitValid /\ [][NextValid]_vars

----------------------------------------------------------------------------
(* Specification SpecLookup: one pass of main's loop body for one          *)
(* identifier, request by request. safe_get (lines 38-48) makes up to      *)
(* MAX_RETRIES attempts; a failed attempt but the last sleeps and doubles  *)
(* the delay, the last one raises to the stage that called it.             *)

InitLookup ==
    /\ ValidIdle
    /\ BatchIdle
    /\ rs \in RsPool
    /\ lpc = "DIRECT_ATTEMPT"
    /\ attempt = 1
    /\ backoff = INITIAL_DELAY
    /\ gets = <<>> /\ slept = <<>> /\ plink = <<>>
    /\ resp = NoResp /\ row = NoRow /\ saved = {}

\* the URL the stage under way requests
StageUrl ==
    IF lpc = "DIRECT_ATTEMPT" THEN direct_url(rs)
    ELSE IF lpc = "SEARCH_ATTEMPT" THEN search_url(rs)
    ELSE plink

\* A variant of GetRetry that tries once more after the last attempt failed.
GetRetry_one_more ==
    /\ lpc \in {"DIRECT_ATTEMPT", "SEARCH_ATTEMPT", "FOLLOW_LINK"}
    /\ attempt <= MAX_RETRIES
    /\ gets' = Append(gets, StageUrl)
    /\ slept' = Append(slept, backoff)
    /\ backoff' = backoff * RETRY_BACKOFF
    /\ attempt' = attempt + 1
    /\ UNCHANGED <<rs, lpc, plink, resp, row, saved, vvars, bvars>>

\* A variant of GetRetry that sleeps the same delay after every failure.
GetRetry_constant_delay ==
    /\ lpc \in {"DIRECT_ATTEMPT", "SEARCH_ATTEMPT", "FOLLOW_LINK"}
    /\ attempt < MAX_RETRIES
    /\ gets' = Append(gets, StageUrl)
    /\ slept' = Append(slept, backoff)
    /\ attempt' = attempt + 1
    /\ UNCHANGED <<rs, lpc, backoff, plink, resp, row, saved, vvars, bvars>>

\* safe_get: an attempt fails and another one follows
GetRetry ==
    /\ lpc \in {"DIRECT_ATTEMPT", "SEARCH_ATTEMPT", "FOLLOW_LINK"}
    /\ attempt < MAX_RETRIES
    /\ gets' = Append(gets, StageUrl)
    /\ slept' = Append(slept, backoff)
    /\ backoff' = backoff * RETRY_BACKOFF
    /\ attempt' = attempt + 1
    /\ UNCHANGED <<rs, lpc, plink, resp, row, saved, vvars, bvars>>

\* The request of the stage under way is over with out (the GET that
\* yielded it is issued here) and the stage st follows from it.
Step(out, st, pause) ==
    /\ gets' = Append(gets, StageUrl)
    /\ resp' = [out EXCEPT !.stage = lpc]
    /\ saved' = saved \cup st.saves
    /\ plink' = st.link
    /\ attempt' = 1
    /\ backoff' = INITIAL_DELAY
    /\ IF st.next = "search"
       THEN lpc' = "SEARCH_ATTEMPT" /\ row' = row /\ slept' = slept \o pause
       ELSE IF st.next = "follow"
       THEN lpc' = "FOLLOW_LINK" /\ row' = row /\ slept' = slept \o pause
       ELSE lpc' = "DONE" /\ row' = result_row(rs, st) /\ slept' = slept
    /\ UNCHANGED <<rs, vvars, bvars>>

Outcomes(pages) ==
    IF attempt = MAX_RETRIES
    THEN Responses(pages) \cup {Raised(e) : e \in TransportErrors}
    ELSE Responses(pages)

DirectAttempt ==
    /\ lpc = "DIRECT_ATTEMPT"
    /\ \E out \in Outcomes(ProductPages) :
          Step(out, direct_stage(rs, out), <<SHORT_DELAY>>)

SearchAttempt ==
    /\ lpc = "SEARCH_ATTEMPT"
    /\ \E out \in Outcomes(SearchPages) :
          Step(out, search_stage(rs, out), <<>>)

FollowLink ==
    /\ lpc = "FOLLOW_LINK"
    /\ \E out \in Outcomes(ProductPages) :
          Step(out, follow_stage(rs, plink, out), <<>>)

NextLookup ==
    \/ GetRetry
    \/ DirectAttempt
    \/ SearchAttempt
    \/ FollowLink

SpecLookup == InitLookup /\ [][NextLookup]_vars

----------------------------------------------------------------------------
(* The batch: main, lines 375-411, and load_already_done, lines 362-372    *)
(*                                                                         *)
(* A CSV file is its lines, a line the texts of its cells. pandas.read_csv *)
(* takes the first line as the column names and reads a cell that is empty *)
(* or one of its NA markers as NaN, whatever dtype is asked for.           *)
(***************************************************************************)

T_RS_PN == <<"R","S","_","P","N">>
T_NAN == <<"n","a","n">>

\* csv.DictWriter(f, fieldnames=[...]).writeheader()
HeaderLine ==
    << T_RS_PN,
       <<"M","a","n","u","f","a","c","t","u","r","e","r","_","P","N">>,
       <<"B","r","a","n","d">>,
       <<"P","r","o","d","u","c","t","_","U","R","L">>,
       <<"S","t","a","t","u","s">> >>

\* writer.writerow(row)
RowLine(r) == <<r.RS_PN, r.Manufacturer_PN, r.Brand, r.Product_URL, r.Status>>

\* the NA markers of pandas.read_csv among the texts used here
NaMarkers == { <<>>, <<"N","A">>, T_NAN }

\* pd.read_csv(input_file, dtype=str).fillna("") then str(x).strip()
read_input_cell(c) == IF c \in NaMarkers THEN <<>> ELSE Strip(c)

\* df_done["RS_PN"].astype(str).str.strip() on one cell
read_done_cell(c) == IF c \in NaMarkers THEN T_NAN ELSE Strip(c)

\* the index of the column named RS_PN among the column names
rs_pn_column(names) == Min({k \in 1..Len(names) : names[k] = T_RS_PN})

done_of(lines, col) ==
    {read_done_cell(lines[k][col]) : k \in 2..Len(lines)}

\* load_already_done: no file, an empty file (read_csv raises, caught) or
\* no RS_PN among the column names give the empty set
load_already_done(file) ==
    IF ~ file.exists THEN {}
    ELSE IF file.lines = <<>> THEN {}
    ELSE IF T_RS_PN \notin Range(file.lines[1]) THEN {}
    ELSE done_of(file.lines, rs_pn_column(file.lines[1]))

\* What the requests of one lookup would yield, for the lookups of a batch
Env(direct, search, product) == [direct |-> direct, search |-> search, product |-> product]

BatchEnvs ==
    { Env(Response("200", Page(T_RSPRO, <<>>, <<>>, <<>>, T_DIST, <<>>, <<>>, FALSE)),
          NoResp, NoResp),
      Env(Response("404", EmptyPage), Response("503", EmptyPage), NoResp),
      Env(Response("200", BadPage), NoResp, NoResp) }

\* a blank cell, an identifier, the same with a space before it, and an
\* identifier that pandas reads back from output.csv as a missing value
InputCells ==
    { <<>>, <<"1","2">>, <<" ","1","2">>, <<" ","N","A">> }

InitBatch ==
    /\ ValidIdle
    /\ LookupIdle
    /\ cells \in UNION {[1..n -> InputCells] : n \in 0..MaxRows}
    /\ outfile = [exists |-> FALSE, lines |-> <<>>]
    /\ bpc = "stopped"
    /\ rs_list = <<>> /\ already_done = {} /\ idx = 0 /\ pending = NoRow
    /\ header = FALSE /\ runs = 0 /\ startLines = <<>> /\ looked = <<>>
    /\ interrupted = FALSE

\* lines 376-388: a run starts
StartRun ==
    /\ bpc \in {"stopped", "finished"}
    /\ runs < MaxRuns
    /\ runs' = runs + 1
    /\ rs_list' = [k \in 1..Len(cells) |-> read_input_cell(cells[k])]
    /\ already_done' = load_already_done(outfile)
    /\ idx' = 1
    /\ bpc' = "loop"
    /\ startLines' = outfile.lines
    /\ looked' = <<>>
    /\ pending' = NoRow
    /\ header' = FALSE
    /\ UNCHANGED <<cells, outfile, interrupted, vvars, lvars>>

\* lines 390-391: if not rs_pn: continue
SkipBlank ==
    /\ bpc = "loop" /\ idx <= Len(rs_list)
    /\ rs_list[idx] = <<>>
    /\ idx' = idx + 1
    /\ UNCHANGED <<cells, outfile, bpc, rs_list, already_done, pending, header, runs,
                   startLines, looked, interrupted, vvars, lvars>>

\* lines 392-394: if rs_pn in already_done: continue
SkipDone ==
    /\ bpc = "loop" /\ idx <= Len(rs_list)
    /\ rs_list[idx] # <<>>
    /\ rs_list[idx] \in already_done
    /\ idx' = idx + 1
    /\ UNCHANGED <<cells, outfile, bpc, rs_list, already_done, pending, header, runs,
                   startLines, looked, interrupted, vvars, lvars>>

\* A variant of Lookup without the try/except of lines 396-402: an
\* exception raised inside fetch_rs_info ends the process.
Lookup_uncaught ==
    /\ bpc = "loop" /\ idx <= Len(rs_list)
    /\ rs_list[idx] # <<>>
    /\ rs_list[idx] \notin already_done
    /\ \E env \in BatchEnvs :
          IF fetch_rs_info(rs_list[idx], env).next = "raise"
          THEN pending' = NoRow /\ bpc' = "finished"
          ELSE /\ pending' = result_row(rs_list[idx], fetch_rs_info(rs_list[idx], env))
               /\ bpc' = "row"
    /\ looked' = Append(looked, rs_list[idx])
    /\ UNCHANGED <<cells, outfile, rs_list, already_done, idx, header, runs,
                   startLines, interrupted, vvars, lvars>>

\* lines 395-402: the lookup, whatever it returns or raises, and the row
Lookup ==
    /\ bpc = "loop" /\ idx <= Len(rs_list)
    /\ rs_list[idx] # <<>>
    /\ rs_list[idx] \notin already_done
    /\ \E env \in BatchEnvs :
          pending' = result_row(rs_list[idx], fetch_rs_info(rs_list[idx], env))
    /\ looked' = Append(looked, rs_list[idx])
    /\ bpc' = "row"
    /\ UNCHANGED <<cells, outfile, rs_list, already_done, idx, header, runs,
                   startLines, interrupted, vvars, lvars>>

\* lines 403-404: header = not os.path.exists(OUTPUT_FILE), then
\* open(OUTPUT_FILE, "a"), which creates the file when there is none
OpenAppend ==
    /\ bpc = "row"
    /\ header' = ~ outfile.exists
    /\ outfile' = [outfile EXCEPT !.exists = TRUE]
    /\ bpc' = "opened"
    /\ UNCHANGED <<cells, rs_list, already_done, idx, pending, runs,
                   startLines, looked, interrupted, vvars, lvars>>

\* lines 406-407: if header: writer.writeheader()
WriteHeader ==
    /\ bpc = "opened"
    /\ outfile' = IF header
                  THEN [outfile EXCEPT !.lines = Append(outfile.lines, HeaderLine)]
                  ELSE outfile
    /\ bpc' = "headed"
    /\ UNCHANGED <<cells, rs_list, already_done, idx, pending, header, runs,
                   startLines, looked, interrupted, vvars, lvars>>

\* lines 408-409: writer.writerow(row), the file is closed, time.sleep(DELAY),
\* and on to the next row
WriteRow ==
    /\ bpc = "headed"
    /\ outfile' = [outfile EXCEPT !.lines = Append(outfile.lines, RowLine(pending))]
    /\ idx' = idx + 1
    /\ pending' = NoRow
    /\ bpc' = "loop"
    /\ UNCHANGED <<cells, rs_list, already_done, header, runs,
                   startLines, looked, interrupted, vvars, lvars>>

\* lines 410-411: the loop is over
Finish ==
    /\ bpc = "loop" /\ idx > Len(rs_list)
    /\ bpc' = "finished"
    /\ UNCHANGED <<cells, outfile, rs_list, already_done, idx, pending, header, runs,
                   startLines, looked, interrupted, vvars, lvars>>

\* The process is interrupted (Ctrl-C, a kill, a power cut) wherever it is:
\* what it wrote so far stays in output.csv, what it held in memory is lost.
Interrupt ==
    /\ bpc \in {"loop", "row", "opened", "headed"}
    /\ bpc' = "stopped"
    /\ interrupted' = TRUE
    /\ rs_list' = <<>> /\ already_done' = {} /\ idx' = 0 /\ pending' = NoRow
    /\ header' = FALSE /\ startLines' = <<>> /\ looked' = <<>>
    /\ UNCHANGED <<cells, outfile, runs, vvars, lvars>>

NextBatch ==
    \/ StartRun
    \/ SkipBlank
    \/ SkipDone
    \/ Lookup
    \/ OpenAppend
    \/ WriteHeader
    \/ WriteRow
    \/ Finish
    \/ Interrupt

Spec == InitBatch /\ [][NextBatch]_vars


----------------------------------------------------------------------------
(* Properties of the validators, under SpecValid *)

\* the candidate and the hint are the same text once case and spaces are
\* left out
SameIgnoringCaseAndSpaces(a, b) == Lower(Remove(a, " ")) = Lower(Remove(b, " "))

\* C2: for every non-empty RS_PN hint, is_valid_mpn_from_field returns
\* false for every candidate that equals the hint when letter case and
\* spaces are ignored.
C2_NeverEchoesTheQuery ==
    (vpc = "is_valid_mpn_from_field" /\ hint # <<>>
        /\ SameIgnoringCaseAndSpaces(cand, hint))
    => ret = FALSE

HasRejectedSubstring(text) ==
    \E bad \in _rejection_substrings : Contains(bad, Lower(text))

\* C6, as stated: is_valid_mpn_from_field returns false for every candidate
\* of more than six whitespace-separated words and for every candidate that
\* contains, case-insensitively, a substring of the rejection list,
\* whatever the hint.
C6_RejectsAsStated ==
    (vpc = "is_valid_mpn_from_field"
        /\ (NumWords(cand) > 6 \/ HasRejectedSubstring(cand)))
    => ret = FALSE

\* C6, amended: is_valid_mpn_from_field returns false for every candidate
\* of more than six whitespace-separated words and for every candidate
\* that, once its leading and trailing whitespace is stripped, contains
\* case-insensitively a substring of the rejection list, whatever the hint.
C6_RejectsAfterStrip ==
    (vpc = "is_valid_mpn_from_field"
        /\ (NumWords(cand) > 6 \/ HasRejectedSubstring(Strip(cand))))
    => ret = FALSE

\* a candidate of six words or fewer that holds a rejection substring in
\* upper case has been refused
C6_Witness ==
    /\ vpc = "is_valid_mpn_from_field"
    /\ NumWords(cand) <= 6
    /\ HasRejectedSubstring(Strip(cand))
    /\ \E i \in 1..Len(cand) : cand[i] \in Range(UpperCase)
    /\ \E i \in 1..Len(cand) : IsAsciiAlnum(cand[i])
    /\ ~ SameIgnoringCaseAndSpaces(cand, hint)
    /\ ret = FALSE

OnlyAsciiDigits(tok) == tok # <<>> /\ \A i \in 1..Len(tok) : tok[i] \in AsciiDigits

----------------------------------------------------------------------------
(* Properties of the batch, under Spec *)

\* the data rows of output.csv, in file order
DataRows(lines) == SelectSeq(lines, LAMBDA l : l # HeaderLine)

\* the data rows the run under way has appended so far
AppendedRows ==
    DataRows(SubSeq(outfile.lines, Len(startLines) + 1, Len(outfile.lines)))

\* C1: after main has run twice in succession, to its end each time, on the
\* same input and the same output file, no two rows of the output carry the
\* same RS_PN, for any input list.
C1_NoDuplicateAfterTwoRuns ==
    (runs = 2 /\ bpc = "finished" /\ ~ interrupted)
    => \A i, j \in 1..Len(DataRows(outfile.lines)) :
          i # j => DataRows(outfile.lines)[i][1] # DataRows(outfile.lines)[j][1]

\* the identifiers of a list that main looks up: not blank, not in the
\* resume set
ToLookUp(list) == SelectSeq(list, LAMBDA x : x # <<>> /\ x \notin already_done)

\* one row for each identifier wanted, in order, each with a Status
RowsMatch(rows, wanted) ==
    /\ Len(rows) = Len(wanted)
    /\ \A k \in 1..Len(rows) : rows[k][1] = wanted[k] /\ rows[k][5] # <<>>

\* C3: in one run of main, the rows appended are, in input order, one row
\* for each input row whose stripped RS_PN is not blank and not in the
\* resume set, whatever the lookup returned or raised (its Status says
\* which); the loop goes on to the last row, and lookups are made for these
\* identifiers only.
C3_OneRowPerIdentifier ==
    /\ (bpc = "loop" /\ idx <= Len(rs_list) + 1)
       => /\ RowsMatch(AppendedRows, ToLookUp(SubSeq(rs_list, 1, idx - 1)))
          /\ looked = ToLookUp(SubSeq(rs_list, 1, idx - 1))
    /\ bpc = "finished"
       => /\ RowsMatch(AppendedRows, ToLookUp(rs_list))
          /\ looked = ToLookUp(rs_list)

\* a run went to its end over an identifier whose lookup raised
\* and the one after it
C3_Witness ==
    /\ bpc = "finished"
    /\ Len(AppendedRows) = 2
    /\ AppendedRows[1][5] = <<"EXCEPTION:", "ValueError">>
    /\ AppendedRows[2][5] = <<"SEARCH_HTTP_", "503">>
    /\ AppendedRows[1][1] # AppendedRows[2][1]

\* C9: starting from an absent output file, after any number of runs,
\* interrupted or not, a file that holds data rows holds exactly one header
\* line, as its first line.
C9_OneHeaderFirst ==
    (bpc \in {"stopped", "finished"} /\ DataRows(outfile.lines) # <<>>)
    => /\ outfile.lines[1] = HeaderLine
       /\ \A k \in 2..Len(outfile.lines) : outfile.lines[k] # HeaderLine


----------------------------------------------------------------------------
(* Properties of one lookup, under SpecLookup *)

\* the last response is a 200 with a page the parser reads, to the request
\* of the stage st
Answered(st) ==
    resp.stage = st /\ resp.kind = "resp" /\ resp.code = HTTP_OK /\ ~ resp.page.bad

OnlyDirectRequests == \A k \in 1..Len(gets) : gets[k] = direct_url(rs)

Searched == search_url(rs) \in Range(gets)

\* the lookup ended on a direct product page of brand RS PRO, with no MPN
\* field and a populated distrelec field
C4_Case ==
    /\ lpc = "DONE"
    /\ Answered("DIRECT_ATTEMPT")
    /\ norm(resp.page.brandA) = T_RSPRO
    /\ resp.page.mpnDd = <<>> /\ resp.page.mpnDt = <<>>
    /\ resp.page.dist # <<>>

\* C4, as stated: for a direct product page (HTTP 200) of brand RS PRO with
\* no MPN field and a populated distrelec field, fetch_rs_info returns the
\* value of that field as Manufacturer_PN, with Status OK(direct) and the
\* direct URL, and no search request is issued.
C4_DistrelecReturned ==
    C4_Case
    => /\ row.Manufacturer_PN = norm(resp.page.dist)
       /\ row.Status = <<"OK(direct)">>
       /\ row.Product_URL = direct_url(rs)
       /\ OnlyDirectRequests

\* C4, amended: for such a page fetch_rs_info returns Brand RS PRO, Status
\* OK(direct) and the direct URL without a search request; Manufacturer_PN
\* is the whitespace-normalised value of the distrelec field when that
\* value passes is_valid_mpn_from_field for this RS_PN, and empty when it
\* does not (it is the RS_PN itself, or holds a rejection substring).
C4_ValidDistrelecReturned ==
    C4_Case
    => /\ row.Manufacturer_PN =
             IF is_valid_mpn_from_field(norm(resp.page.dist), rs)
             THEN norm(resp.page.dist) ELSE <<>>
       /\ row.Brand = T_RSPRO
       /\ row.Status = <<"OK(direct)">>
       /\ row.Product_URL = direct_url(rs)
       /\ OnlyDirectRequests

\* the distrelec value of such a page, normalised, has been returned
C4_Witness ==
    /\ C4_Case
    /\ row.Manufacturer_PN = norm(resp.page.dist)
    /\ row.Manufacturer_PN # resp.page.dist
    /\ row.Status = <<"OK(direct)">>

\* the card of the only anchor of the search page answered
TheCard == resp.page.anchors[1].levels[1]

\* the lookup ended on a search page with one card that holds a product
\* link embedding the RS_PN, a brand link with an acceptable brand, an MPN
\* field with a rejection substring, and no distrelec field
C5_Case ==
    /\ lpc = "DONE"
    /\ Answered("SEARCH_ATTEMPT")
    /\ Len(resp.page.anchors) = 1
    /\ Len(resp.page.anchors[1].levels) = 1
    /\ Contains(<<WEBP>>, resp.page.anchors[1].href)
    /\ Contains(rs, resp.page.anchors[1].href)
    /\ TheCard.isCard
    /\ brand_acceptable(norm(TheCard.brandA))
    /\ TheCard.mpnDd # <<>>
    /\ HasRejectedSubstring(norm(TheCard.mpnDd))
    /\ TheCard.dist = <<>>

SuccessCodes == {"200", "201", "202", "203", "204", "205", "206"}

\* C8, as stated: every non-2xx response received during a lookup, on the
\* direct page, the search page or the followed product page, has its body
\* saved to the diagnostics directory and is recorded as a Status that
\* includes the HTTP code.
C8_EveryFailureRecorded ==
    (resp.kind = "resp" /\ resp.code \notin SuccessCodes)
    => /\ \E f \in saved : f.body = resp.page /\ resp.code \in Range(f.suffix)
       /\ lpc = "DONE" => resp.code \in Range(row.Status)

\* C8, amended: every response other than 200 on the search page or on the
\* followed product page ends the lookup with Status SEARCH_HTTP_<code> or
\* PRODUCT_HTTP_<code>, and its body is saved to the diagnostics directory;
\* a response other than 200 on the direct page is neither recorded nor
\* saved: the lookup goes on to the search.
C8_SearchAndProductFailuresRecorded ==
    /\ (resp.kind = "resp" /\ resp.code # "200" /\ resp.stage = "SEARCH_ATTEMPT")
       => /\ lpc = "DONE"
          /\ row.Status = <<"SEARCH_HTTP_", resp.code>>
          /\ failed_html(rs, resp.page, <<"search_http_", resp.code>>) \in saved
    /\ (resp.kind = "resp" /\ resp.code # "200" /\ resp.stage = "FOLLOW_LINK")
       => /\ lpc = "DONE"
          /\ row.Status = <<"PRODUCT_HTTP_", resp.code>>
          /\ failed_html(rs, resp.page, <<"product_http_", resp.code>>) \in saved
    /\ (resp.kind = "resp" /\ resp.code # "200" /\ resp.stage = "DIRECT_ATTEMPT")
       => /\ lpc = "SEARCH_ATTEMPT"
          /\ row = NoRow
          /\ saved = {}

\* the followed product page answered 404
C8_Witness ==
    /\ lpc = "DONE"
    /\ resp.stage = "FOLLOW_LINK" /\ resp.kind = "resp" /\ resp.code = "404"
    /\ row.Status = <<"PRODUCT_HTTP_", "404">>
    /\ \E f \in saved : f.suffix = <<"product_http_", "404">>

\* C10, as stated: the search attempt is made exactly when the direct
\* attempt did not succeed: a lookup that ends without a search request
\* ends in OK(direct), and one that ends otherwise has made the search
\* (lookups that no parser raised in).
C10_SearchIffDirectFailed ==
    (lpc = "DONE" /\ row.Status[1] # "EXCEPTION:")
    => \/ row.Status = <<"OK(direct)">> /\ OnlyDirectRequests
       \/ row.Status # <<"OK(direct)">> /\ Searched

\* C10, amended: the search attempt is made exactly when the direct request
\* got an HTTP response and the direct attempt did not succeed on it. A
\* successful direct attempt ends the lookup with no further request; a
\* direct request whose every try failed in transport ends it with
\* ERROR_DIRECT and an exception raised while the direct page is parsed
\* ends it with EXCEPTION, both without a search; every other failure
\* Status is reached only after the search request was made.
C10_SearchIffDirectAnsweredAndFailed ==
    /\ (lpc = "DONE" /\ ~ Searched)
       => /\ OnlyDirectRequests
          /\ resp.stage = "DIRECT_ATTEMPT"
          /\ \/ row.Status = <<"OK(direct)">> /\ Answered("DIRECT_ATTEMPT")
             \/ row.Status = <<"ERROR_DIRECT:", resp.e>> /\ resp.kind = "raise"
                   /\ Len(gets) = MAX_RETRIES
             \/ row.Status = <<"EXCEPTION:", "ValueError">> /\ resp.page.bad
    /\ (lpc = "DONE" /\ Searched)
       => /\ row.Status # <<"OK(direct)">>
          /\ row.Status[1] # "ERROR_DIRECT:"
    /\ (lpc = "SEARCH_ATTEMPT" /\ resp.stage = "DIRECT_ATTEMPT")
       => /\ resp.kind = "resp"
          /\ direct_stage(rs, resp).next = "search"
    /\ lpc = "FOLLOW_LINK" => Searched

\* a lookup ended with ERROR_DIRECT after three tries, without a search
C10_Witness ==
    /\ lpc = "DONE"
    /\ row.Status = <<"ERROR_DIRECT:", "ConnectionError">>
    /\ gets = <<direct_url(rs), direct_url(rs), direct_url(rs)>>
    /\ ~ Searched

\* the lookup ended on a search page with one anchor, a product link in
\* one card, and the card's fields were taken (Status OK(search-card))
OneCardTaken ==
    /\ lpc = "DONE"
    /\ Answered("SEARCH_ATTEMPT")
    /\ Len(resp.page.anchors) = 1
    /\ Len(resp.page.anchors[1].levels) = 1
    /\ Contains(<<WEBP>>, resp.page.anchors[1].href)
    /\ TheCard.isCard
    /\ row.Status = <<"OK(search:", "OK(search-card)", ")">>

\* C11: in the search-page extractor, an MPN field value that fails strict
\* validation is retried by splitting it, and the first token that passes
\* heuristic_mpn_candidate is returned as the MPN; the MPN is empty only if
\* no token passes (cards where no distrelec value stands in).
C11_FailedFieldRetriedByTokens ==
    (OneCardTaken
        /\ TheCard.mpnDd # <<>>
        /\ ~ is_valid_mpn_from_field(norm(TheCard.mpnDd), rs)
        /\ TheCard.dist = <<>>)
    => row.Manufacturer_PN = first_heuristic_token(norm(TheCard.mpnDd), rs)

\* the anchors of a page that are candidates, by their place in the document
CandidateAt(page) ==
    {i \in 1..Len(page.anchors) : Contains(<<WEBP>>, page.anchors[i].href)}

\* candidate i comes before candidate j: a higher score, or the same score
\* and an earlier place in the document
RanksBefore(page, rs_pn, i, j) ==
    \/ anchor_score(page.anchors[i], rs_pn) > anchor_score(page.anchors[j], rs_pn)
    \/ /\ anchor_score(page.anchors[i], rs_pn) = anchor_score(page.anchors[j], rs_pn)
       /\ i < j

FirstOf(page, rs_pn, S) ==
    CHOOSE i \in S : \A j \in S \ {i} : RanksBefore(page, rs_pn, i, j)

\* the candidates in whose card or sibling acceptable fields are found
WithFields(page, rs_pn) ==
    {i \in CandidateAt(page) : candidate_fields(page.anchors[i], rs_pn).found}

\* C12, as stated: parse_search_page_for_fields always returns the URL of
\* the highest-scoring candidate link (ties in document order), with or
\* without fields, never the URL of a candidate that ranks lower.
C12_TopCandidateReturned ==
    (Answered("SEARCH_ATTEMPT") /\ CandidateAt(resp.page) # {})
    => parse_search_page_for_fields(resp.page, rs).link =
          full_url(resp.page.anchors[FirstOf(resp.page, rs, CandidateAt(resp.page))].href)

\* C12, amended: parse_search_page_for_fields returns the URL of the first
\* candidate, in descending score order (ties in document order), for which
\* acceptable fields are found, with those fields, even when a candidate
\* that ranks higher has none; it returns the URL of the highest-scoring
\* candidate alone, with empty fields, when no candidate has fields.
C12_FirstCandidateWithFields ==
    (Answered("SEARCH_ATTEMPT") /\ CandidateAt(resp.page) # {})
    => IF WithFields(resp.page, rs) # {}
       THEN /\ parse_search_page_for_fields(resp.page, rs).link =
                  full_url(resp.page.anchors[FirstOf(resp.page, rs,
                                                     WithFields(resp.page, rs))].href)
            /\ has_any(parse_search_page_for_fields(resp.page, rs))
            /\ lpc = "DONE"
            /\ row.Product_URL = parse_search_page_for_fields(resp.page, rs).link
       ELSE /\ parse_search_page_for_fields(resp.page, rs).link =
                  full_url(resp.page.anchors[FirstOf(resp.page, rs,
                                                     CandidateAt(resp.page))].href)
            /\ ~ has_any(parse_search_page_for_fields(resp.page, rs))

\* the candidate that holds the RS_PN has no fields, a candidate that ranks
\* lower has, and the URL of the latter is in the row
C12_Witness ==
    /\ Answered("SEARCH_ATTEMPT")
    /\ lpc = "DONE"
    /\ Len(resp.page.anchors) = 2
    /\ anchor_score(resp.page.anchors[1], rs) > anchor_score(resp.page.anchors[2], rs)
    /\ WithFields(resp.page, rs) = {2}
    /\ row.Product_URL = full_url(resp.page.anchors[2].href)
    /\ row.Status = <<"OK(search:", "OK(search-card)", ")">>

\* the first part of every Status text that starts with "OK"
OkHeads ==
    { "OK(direct)", "OK(search:", "OK(search->product)", "OK(search-card)",
      "OK(search-sibling)", "OK(raw-snippet)", "OK(raw-first)",
      "OK_FOUND_anchor_no_card_fields" }

StartsWithOK(status) == status # <<>> /\ status[1] \in OkHeads

\* C13: every result whose Status starts with "OK" has a Brand that passes
\* looks_like_brand or a Manufacturer_PN that passes is_valid_mpn_from_field
\* or heuristic_mpn_candidate for that RS_PN; every result with another
\* Status has an empty Manufacturer_PN and an empty Brand.
C13_OkMeansAcceptableFields ==
    lpc = "DONE"
    => IF StartsWithOK(row.Status)
       THEN \/ (row.Brand # <<>> /\ looks_like_brand(row.Brand))
            \/ (row.Manufacturer_PN # <<>>
                  /\ (is_valid_mpn_from_field(row.Manufacturer_PN, rs)
                        \/ heuristic_mpn_candidate(row.Manufacturer_PN, rs)))
       ELSE row.Manufacturer_PN = <<>> /\ row.Brand = <<>>

\* a result of the search with no brand and an MPN that only the loose
\* heuristic accepts
C13_Witness ==
    /\ lpc = "DONE"
    /\ row.Status[1] = "OK(search:"
    /\ row.Brand = <<>>
    /\ row.Manufacturer_PN # <<>>
    /\ ~ is_valid_mpn_from_field(row.Manufacturer_PN, rs)
    /\ heuristic_mpn_candidate(row.Manufacturer_PN, rs)

\* the last n elements of a sequence
LastOf(seq, n) == SubSeq(seq, Len(seq) - n + 1, Len(seq))

\* the sleeps after n failed attempts in a row: 0.8 s, then twice the
\* sleep before
BackoffSleeps(n) == [i \in 1..n |-> 80 * 2 ^ (i - 1)]

\* C14: a call of safe_get issues at most max_retries GETs of its URL; it
\* returns the first response obtained, whatever its status code, with no
\* further attempt; after each failed attempt but the last it sleeps for a
\* delay that doubles each time; after the max_retries-th failure in a row
\* it raises the exception to its caller.
C14_BoundedRetriesWithBackoff ==
    /\ \A k \in 1..(Len(gets) - 3) : \E j \in 1..3 : gets[k + j] # gets[k]
    /\ lpc \in {"DIRECT_ATTEMPT", "SEARCH_ATTEMPT", "FOLLOW_LINK"}
       => /\ attempt \in 1..3
          /\ Len(gets) >= attempt - 1 /\ Len(slept) >= attempt - 1
          /\ LastOf(gets, attempt - 1) = [i \in 1..(attempt - 1) |-> StageUrl]
          /\ LastOf(slept, attempt - 1) = BackoffSleeps(attempt - 1)
    /\ resp.kind = "resp" => lpc # resp.stage
    /\ resp.kind = "raise"
       => /\ lpc = "DONE"
          /\ Len(gets) >= 3 /\ Len(slept) >= 2
          /\ LastOf(gets, 3) = <<gets[Len(gets)], gets[Len(gets)], gets[Len(gets)]>>
          /\ LastOf(slept, 2) = BackoffSleeps(2)
          /\ row.Status = <<row.Status[1], resp.e>>
          /\ row.Status[1] \in {"ERROR_DIRECT:", "SEARCH_ERROR:", "ERROR_FETCH_PRODUCT:"}

\* the search page answered 503 at the third attempt, after two failures
\* and sleeps of 0.8 s and 1.6 s, and the answer was taken as it is
C14_Witness ==
    /\ resp.kind = "resp" /\ resp.code = "503" /\ resp.stage = "SEARCH_ATTEMPT"
    /\ lpc = "DONE"
    /\ Len(gets) >= 3 /\ Len(slept) >= 2
    /\ LastOf(gets, 3) = <<search_url(rs), search_url(rs), search_url(rs)>>
    /\ LastOf(slept, 2) = <<80, 160>>
    /\ row.Status = <<"SEARCH_HTTP_", "503">>

\* some occurrence of the product-link pattern in the page holds the RS_PN
SomeRawHolds(page, rs_pn) ==
    \E k \in 1..Len(page.raw) : Contains(rs_pn, page.raw[k].m)

\* C15: aggressive_search_scan returns a link that contains the RS_PN
\* whenever some product-link occurrence of the raw HTML contains it (a
\* link without the RS_PN, the first found, only when no occurrence
\* contains it), and no link (NO_RAW_LINKS) only when there is no
\* occurrence at all.
C15_RawLinkHoldsIdentifier ==
    Answered("SEARCH_ATTEMPT")
    => /\ SomeRawHolds(resp.page, rs)
          => Contains(rs, aggressive_search_scan(resp.page, rs).link)
       /\ aggressive_search_scan(resp.page, rs).link = <<>>
          <=> resp.page.raw = <<>>

\* C16: when structured parsing of the search page finds a product link
\* but no fields, the lookup proceeds to FOLLOW_LINK on the URL of the
\* top-scoring structured candidate; SEARCH_NO_PRODUCT_LINK is recorded
\* only when the search page has no product link.
C16_FollowsTopCandidate ==
    /\ (Answered("SEARCH_ATTEMPT")
          /\ parse_search_page_for_fields(resp.page, rs).link # <<>>
          /\ ~ has_any(parse_search_page_for_fields(resp.page, rs)))
       => /\ lpc = "FOLLOW_LINK"
          /\ plink = parse_search_page_for_fields(resp.page, rs).link
    /\ (lpc = "DONE" /\ row.Status = <<"SEARCH_NO_PRODUCT_LINK">>)
       => CandidateAt(resp.page) = {}

\* C17: whichever branch produced the result (direct page, search card,
\* search sibling, raw snippet, followed product page), the
\* Manufacturer_PN of the row is never equal to the RS_PN looked up.
C17_MpnNeverTheIdentifier ==
    lpc = "DONE" => row.Manufacturer_PN # rs

\* the Status texts without a parameter
PlainStatuses ==
    { <<"OK(direct)">>,
      <<"OK(search:", "OK(search-card)", ")">>,
      <<"OK(search:", "OK(search-sibling)", ")">>,
      <<"OK(search:", "OK(raw-snippet)", ")">>,
      <<"OK(search->product)">>,
      <<"SEARCH_NO_PRODUCT_LINK">>,
      <<"PRODUCT_PAGE_FIELDS_MISSING">> }

\* the heads of the Status texts that end with an exception or a code
ParamHeads ==
    { "ERROR_DIRECT:", "SEARCH_ERROR:", "SEARCH_HTTP_", "ERROR_FETCH_PRODUCT:",
      "PRODUCT_HTTP_", "EXCEPTION:" }

IntermediateTags == { "NO_RAW_LINKS", "OK(raw-first)", "OK_FOUND_anchor_no_card_fields" }

\* the heads of the Status texts whose row has no Product_URL
NoUrlHeads ==
    { "ERROR_DIRECT:", "SEARCH_ERROR:", "SEARCH_HTTP_", "SEARCH_NO_PRODUCT_LINK",
      "EXCEPTION:" }

\* C18: the Status of every row is one of the thirteen listed forms, the
\* intermediate tags NO_RAW_LINKS, OK(raw-first) and
\* OK_FOUND_anchor_no_card_fields never appear in it, and Product_URL is
\* empty exactly for ERROR_DIRECT, SEARCH_ERROR, SEARCH_HTTP_<code>,
\* SEARCH_NO_PRODUCT_LINK and EXCEPTION rows.
C18_StatusVocabulary ==
    lpc = "DONE"
    => /\ \/ row.Status \in PlainStatuses
          \/ Len(row.Status) = 2 /\ row.Status[1] \in ParamHeads /\ row.Status[2] # ""
       /\ \A k \in 1..Len(row.Status) : row.Status[k] \notin IntermediateTags
       /\ row.Product_URL = <<>> <=> row.Status[1] \in NoUrlHeads

\* a lookup that followed a link of the search page and whose row is a
\* failure of the followed page, with the link as its Product_URL
C18_Witness ==
    /\ lpc = "DONE"
    /\ Answered("FOLLOW_LINK")
    /\ row.Status = <<"PRODUCT_PAGE_FIELDS_MISSING">>
    /\ row.Product_URL = plink
    /\ plink # <<>>

\* the line is a data row whose Status records a failure
FailureRow(line) == line # HeaderLine /\ ~ StartsWithOK(line[5])

\* C19: an identifier whose row in the output file records a failure Status
\* is treated as done: in every later run against the same file no lookup
\* is made for it, and the rows the file held when the run started stay as
\* they were.
C19_FailuresNotRetried ==
    /\ Len(startLines) <= Len(outfile.lines)
    /\ SubSeq(outfile.lines, 1, Len(startLines)) = startLines
    /\ \A k \in 1..Len(startLines) :
          FailureRow(startLines[k])
          => \A j \in 1..Len(looked) : looked[j] # startLines[k][1]

----------------------------------------------------------------------------
(* Termination: one lookup, and one run of the batch *)

\* the steps of a run of main: the loop of lines 389-409 and its end
RunStep ==
    \/ SkipBlank
    \/ SkipDone
    \/ Lookup
    \/ OpenAppend
    \/ WriteHeader
    \/ WriteRow
    \/ Finish

\* Whether a lookup or a run ends does not depend on which identifiers it
\* is given: the lookups are those of one identifier, and the runs start
\* from the inputs made of a blank cell and that identifier.
InitOneLookup == InitLookup /\ rs = <<"1","2">>

InitRun ==
    /\ InitBatch
    /\ \A k \in 1..Len(cells) : cells[k] \in {<<>>, <<"1","2">>}

InitEither == InitOneLookup \/ InitRun

NextEither == NextLookup \/ NextBatch

\* A lookup under way goes on: every GET returns or raises within its
\* timeout (lines 37, 41) and every sleep ends. A run under way goes on to its
\* next statement unless it is interrupted; nothing obliges a run to start
\* or an interruption to happen.
FairSpec ==
    /\ InitEither
    /\ [][NextEither]_vars
    /\ WF_vars(NextLookup)
    /\ WF_vars(RunStep)

Times(u, n) == [k \in 1..n |-> u]

\* the GETs so far: a of the direct page, then b of the search page, then c
\* of the followed link, none more than MAX_RETRIES times
GetsInOrder ==
    \E a, b, c \in 0..MAX_RETRIES :
       /\ gets = Times(direct_url(rs), a) \o Times(search_url(rs), b) \o Times(plink, c)
       /\ b > 0 => a > 0
       /\ c > 0 => b > 0

\* no result before the end of the lookup, one at its end
OneResult ==
    /\ lpc \in {"DIRECT_ATTEMPT", "SEARCH_ATTEMPT", "FOLLOW_LINK"} => row = NoRow
    /\ lpc = "DONE" => row.RS_PN = rs /\ row.Status # <<>>

\* the loop of main has visited the rows before idx, each once: no more
\* lookups than rows visited, and the run ends past the last row
EachRowOnce ==
    /\ bpc \in {"loop", "row", "opened", "headed", "finished"}
       => idx \in 1..(Len(rs_list) + 1)
    /\ bpc = "loop" => Len(looked) <= idx - 1
    /\ bpc \in {"row", "opened", "headed"} => Len(looked) <= idx /\ idx <= Len(rs_list)
    /\ bpc = "finished" => idx = Len(rs_list) + 1

\* C20: every call of fetch_rs_info ends with exactly one result after at
\* most three fetches, in the order direct page, search page, followed
\* product page, each of at most MAX_RETRIES GETs, so after at most 9 GETs;
\* and a run of main ends after visiting each input row once.
C20_BoundedAndTerminates ==
    /\ [](GetsInOrder /\ Len(gets) <= 3 * MAX_RETRIES /\ OneResult /\ EachRowOnce)
    /\ [][idx' # idx => idx' = idx + 1 \/ idx' = 1 \/ idx' = 0]_vars
    /\ (lpc = "DIRECT_ATTEMPT") ~> (lpc = "DONE")
    /\ (bpc = "loop") ~> (bpc \in {"finished", "stopped"})

\* a lookup that ended after three GETs of each of its three URLs
C20_Witness ==
    /\ lpc = "DONE"
    /\ Len(gets) = 3 * MAX_RETRIES
    /\ gets[1] = direct_url(rs)
    /\ gets[4] = search_url(rs)
    /\ gets[7] = plink
    /\ row.Product_URL = plink

====
